---- MODULE Spec2Model ----
(***************************************************************************)
(* Model of the streaming proxy / buffering engine of boykies-server:      *)
(* the SSE frame parsers, the pass-through handlers (POST /initialize,     *)
(* POST /analyze, POST /_debug/init-raw, the SSE relays) and the buffered  *)
(* client (UnifiedDifyClient.postStreaming / postStreamingBuffered), with  *)
(* their timers, abort controllers and response sinks.                     *)
(*                                                                         *)
(* Text is a sequence of one-character strings.  LF is the newline, SP the *)
(* blank.  Upstream bytes are the same characters, except that the         *)
(* two-byte character EAcute travels as the bytes ByteHi, ByteLo.          *)
(***************************************************************************)
EXTENDS Integers, Sequences, FiniteSets, TLC

\* ------------------------------------------------------------------ bounds

\* longest chunk (in bytes) a single upstream read delivers in SpecParse
MaxChunk == 3

\* number of keep-alive ticks a session may see
MaxPings == 1

\* number of calls of record() followed in SpecTranscript
MaxCalls == 203

\* longest availablePlayers array handed to trimAvailablePlayersIfNeeded in
\* SpecTrim
MaxTrimLen == 260

\* records the helpers of helpers/streaming.js write to one response in
\* SpecSse
MaxWrites == 4

\* calls of record() that may come from an earlier session, with a second
\* correlation id, in SpecTranscript
MaxSideEntries == 1

\* ------------------------------------------------------------------- text

LF == "LF"
SP == "SP"
ByteHi == "C3"
ByteLo == "A9"
EAcute == "e'"
Replacement == "FFFD"

Min(a, b) == IF a < b THEN a ELSE b

\* String.prototype.slice(from) with a 0-based start, on 1-based sequences
SliceFrom(s, from) == SubSeq(s, from + 1, Len(s))

\* String.prototype.slice(0, n)
SliceTo(s, n) == SubSeq(s, 1, Min(n, Len(s)))

StartsWith(s, p) == Len(s) >= Len(p) /\ SubSeq(s, 1, Len(p)) = p

IsSpace(c) == c = SP \/ c = LF

RECURSIVE TrimStart(_)
TrimStart(s) == IF s # <<>> /\ IsSpace(Head(s)) THEN TrimStart(Tail(s)) ELSE s

RECURSIVE TrimEnd(_)
TrimEnd(s) ==
    IF s # <<>> /\ IsSpace(s[Len(s)]) THEN TrimEnd(SubSeq(s, 1, Len(s) - 1)) ELSE s

\* String.prototype.trim
Trim(s) == TrimEnd(TrimStart(s))

\* buffer.indexOf('\n\n'): 0-based position of the first blank line, -1 if none
RECURSIVE IndexOfSepFrom(_, _)
IndexOfSepFrom(s, i) ==
    IF i + 1 > Len(s) THEN -1
    ELSE IF s[i] = LF /\ s[i + 1] = LF THEN i - 1
    ELSE IndexOfSepFrom(s, i + 1)

IndexOfSep(s) == IndexOfSepFrom(s, 1)

\* String.prototype.split('\n'): always at least one (possibly empty) piece
RECURSIVE SplitFrom(_, _, _)
SplitFrom(s, i, cur) ==
    IF i > Len(s) THEN <<cur>>
    ELSE IF s[i] = LF THEN <<cur>> \o SplitFrom(s, i + 1, <<>>)
    ELSE SplitFrom(s, i + 1, Append(cur, s[i]))

Split(s) == SplitFrom(s, 1, <<>>)

RECURSIVE Flatten(_)
Flatten(ss) == IF ss = <<>> THEN <<>> ELSE Head(ss) \o Flatten(Tail(ss))

\* TextDecoder.decode(value, {stream: true}): an incomplete multi-byte
\* sequence at the end of a chunk is kept for the next call
RECURSIVE DecodeBytes(_, _)
DecodeBytes(bytes, i) ==
    IF i > Len(bytes) THEN [text |-> <<>>, pending |-> <<>>]
    ELSE IF bytes[i] = ByteHi THEN
        IF i = Len(bytes) THEN [text |-> <<>>, pending |-> <<ByteHi>>]
        ELSE IF bytes[i + 1] = ByteLo THEN
            LET r == DecodeBytes(bytes, i + 2)
            IN  [text |-> <<EAcute>> \o r.text, pending |-> r.pending]
        ELSE
            LET r == DecodeBytes(bytes, i + 1)
            IN  [text |-> <<Replacement>> \o r.text, pending |-> r.pending]
    ELSE
        LET r == DecodeBytes(bytes, i + 1)
            c == IF bytes[i] = ByteLo THEN Replacement ELSE bytes[i]
        IN  [text |-> <<c>> \o r.text, pending |-> r.pending]

DecodeStream(pending, value) == DecodeBytes(pending \o value, 1)

\* TextDecoder.decode(value) without the stream flag: a dangling lead byte
\* is replaced at once
DecodeWhole(value) ==
    LET r == DecodeBytes(value, 1)
    IN  r.text \o (IF r.pending = <<>> THEN <<>> ELSE <<Replacement>>)

\* ------------------------------------------------------------------- JSON

\* The reasoning tags, each one character of a text.  ThinkOpenHead followed
\* by ThinkOpenTail ('<th' 'ink>') spells the opening tag as well.
ThinkOpen == "<think>"
ThinkClose == "</think>"
ThinkOpenHead == "<th"
ThinkOpenTail == "ink>"

\* An upstream payload.  Absent fields are "" / <<>> (falsy in the code).  A
\* number is held as its decimal text.
NoObj ==
    [event |-> "", answer |-> <<>>, conversation_id |-> "", id |-> "",
     message |-> "", thought |-> <<>>, created_at |-> ""]

\* The JSON documents of the model: the text "{" k "}" stands for the
\* document JsonBodies[k]; every other text is not JSON.
JsonBodies ==
    [k \in {"h", "l", "e", "r", "c", "t", "k", "n", "w", "f", "b", EAcute} |->
        CASE k = "h" -> [NoObj EXCEPT !.event = "message", !.answer = <<"H", "e", "l">>,
                                      !.id = "m1"]
          [] k = "l" -> [NoObj EXCEPT !.event = "message", !.answer = <<"l", "o">>]
          [] k = "e" -> [NoObj EXCEPT !.event = "message_end"]
          [] k = "r" -> [NoObj EXCEPT !.event = "error", !.message = "boom"]
          [] k = "c" -> [NoObj EXCEPT !.event = "message", !.answer = <<"!">>,
                                      !.conversation_id = "conv-2"]
          [] k = "t" -> [NoObj EXCEPT !.event = "agent_thought", !.thought = <<"T">>]
          [] k = "k" -> [NoObj EXCEPT !.event = "message",
                            !.answer = <<ThinkOpen, "i", "g", "n", "o", "r", "e", ThinkClose,
                                         "H", "e", "l", "l", "o">>]
          [] k = "w" -> [NoObj EXCEPT !.event = "message",
                            !.answer = <<ThinkOpen, "x", ThinkClose, LF, LF, "H", "i">>]
          [] k = "n" -> [NoObj EXCEPT !.event = "message",
                            !.answer = <<ThinkOpenHead, ThinkOpen, "x", ThinkClose,
                                         ThinkOpenTail, "a", ThinkClose, "b">>]
          [] k = "f" -> [NoObj EXCEPT !.event = "message", !.answer = <<"a">>,
                                      !.created_at = "1.0"]
          [] k = "b" -> [NoObj EXCEPT !.event = "message", !.answer = <<"b">>,
                                      !.created_at = "9007199254740993"]
          [] OTHER   -> [NoObj EXCEPT !.event = "message", !.answer = <<EAcute>>]]

\* The Number JSON.parse makes of a number text, held as the text
\* JSON.stringify prints for it: the nearest double in its shortest form
\* (2^53 + 1 is not a double, the nearest one is 2^53).
ParseNumber(text) ==
    CASE text = "1.0" -> "1"
      [] text = "9007199254740993" -> "9007199254740992"
      [] OTHER -> text

\* JSON.parse(text): ok = FALSE stands for the SyntaxError it throws
JSONParse(text) ==
    LET t == Trim(text)
    IN  IF Len(t) = 3 /\ t[1] = "{" /\ t[3] = "}" /\ t[2] \in DOMAIN JsonBodies
        THEN [ok |-> TRUE,
              value |-> [JsonBodies[t[2]] EXCEPT !.created_at = ParseNumber(@)]]
        ELSE [ok |-> FALSE, value |-> NoObj]

Json(k) == <<"{", k, "}">>
DONE == <<"[", "D", "O", "N", "E", "]">>
DataPrefix == <<"d", "a", "t", "a", ":">>
DataSpacePrefix == <<"d", "a", "t", "a", ":", SP>>

\* ------------------------------------------------------------- the sink

\* One record (line or SSE event) written to the caller.
Record(event, type, kind, data, text) ==
    [event |-> event, type |-> type, kind |-> kind, data |-> data, text |-> text]

\* {event: data.event, data: data}
NdjsonEvent(data) == Record(data.event, "", "", data, <<>>)

\* {event: 'error', data: {error: kind, ...}}
ErrorEvent(kind) == Record("error", "", kind, NoObj, <<>>)

\* {event: 'complete', data: {conversationId, duration_ms}}
CompletionEvent(conversationId) ==
    Record("complete", "", "", [NoObj EXCEPT !.conversation_id = conversationId], <<>>)

\* The response object: what was written, and whether end() was called.
\* A write after end() is not delivered (ERR_STREAM_WRITE_AFTER_END).
NewResponse == [records |-> <<>>, writableEnded |-> FALSE, writeAfterEnd |-> FALSE]

ResWrite(res, rec) ==
    IF res.writableEnded THEN [res EXCEPT !.writeAfterEnd = TRUE]
    ELSE [res EXCEPT !.records = Append(@, rec)]

ResEnd(res) == [res EXCEPT !.writableEnded = TRUE]

\* ------------------------------------------- pass-through frame parser

\* lines.filter(l => l.startsWith('data:')).map(l => l.slice(5).trim()).filter(Boolean)
RECURSIVE DataPayloads(_)
DataPayloads(lines) ==
    IF lines = <<>> THEN <<>>
    ELSE LET l == Head(lines)
             p == Trim(SliceFrom(l, 5))
         IN  IF StartsWith(l, DataPrefix) /\ p # <<>>
             THEN <<p>> \o DataPayloads(Tail(lines))
             ELSE DataPayloads(Tail(lines))

\* a fallback record that would lose the raw payload
TextFallbackEmpty(route, payload) ==
    IF route = "initraw" THEN Record("text", "", "", NoObj, <<>>)
    ELSE Record("", "text", "", NoObj, <<>>)

\* The fallback record of the catch around JSON.parse.
TextFallback(route, payload) ==
    IF route = "initraw" THEN Record("text", "", "", NoObj, payload)
    ELSE Record("", "text", "", NoObj, payload)

\* for (const payload of datas) { ... }: st is [buffer, finalConversationId,
\* streamCompleted, res].  'break' leaves this loop only; the throw on an
\* error frame is caught by the catch of the same try, which writes the
\* text fallback and goes on.
RECURSIVE ForwardPayloads(_, _, _, _)
ForwardPayloads(route, datas, i, st) ==
    IF i > Len(datas) THEN st
    ELSE LET payload == datas[i]
             parsed == JSONParse(payload)
             data == parsed.value
         IN  IF payload = DONE THEN ForwardPayloads(route, datas, i + 1, st)
             ELSE IF ~parsed.ok THEN
                 ForwardPayloads(route, datas, i + 1,
                     [st EXCEPT !.res = ResWrite(@, TextFallback(route, payload))])
             ELSE LET conv == IF route = "initialize" /\ data.conversation_id # ""
                              THEN data.conversation_id ELSE st.finalConversationId
                      st1 == [st EXCEPT !.finalConversationId = conv,
                                        !.res = ResWrite(@, NdjsonEvent(data))]
                  IN  IF route = "initraw" THEN ForwardPayloads(route, datas, i + 1, st1)
                      ELSE IF data.event = "message_end"
                      THEN [st1 EXCEPT !.streamCompleted = TRUE]
                      ELSE IF data.event = "error"
                      THEN ForwardPayloads(route, datas, i + 1,
                               [st1 EXCEPT !.res = ResWrite(@, TextFallback(route, payload))])
                      ELSE ForwardPayloads(route, datas, i + 1, st1)

\* while ((sep = buffer.indexOf('\n\n')) !== -1) { ... }
RECURSIVE ProcessFrames(_, _)
ProcessFrames(route, st) ==
    LET sep == IndexOfSep(st.buffer)
    IN  IF sep = -1 THEN st
        ELSE LET chunk == SliceTo(st.buffer, sep)
                 rest == SliceFrom(st.buffer, sep + 2)
                 datas == DataPayloads(Split(chunk))
             IN  ProcessFrames(route,
                     ForwardPayloads(route, datas, 1, [st EXCEPT !.buffer = rest]))

\* One turn of the read loop after reader.read() returned a chunk.
PassThroughChunk(route, st, value) ==
    LET d == DecodeStream(st.decoder, value)
    IN  ProcessFrames(route, [st EXCEPT !.decoder = d.pending, !.buffer = @ \o d.text])

\* ----------------------------------------------- buffered line parser

\* a thought frame that would overwrite whatever has accumulated
ThoughtOverwrite(st, data) ==
    IF data.thought # <<>> THEN [st EXCEPT !.finalAnswer = data.thought] ELSE st

\* if (data.thought && !finalAnswer) finalAnswer = data.thought
ThoughtFallback(st, data) ==
    IF data.thought # <<>> /\ st.finalAnswer = <<>>
    THEN [st EXCEPT !.finalAnswer = data.thought] ELSE st

\* a delta that would replace the accumulated answer instead of extending it
ReplaceDelta(st, data) == [st EXCEPT !.finalAnswer = data.answer]

\* const chunk = data.answer || ''; if (chunk) finalAnswer += chunk
AppendDelta(st, data) == [st EXCEPT !.finalAnswer = @ \o data.answer]

\* for (const line of lines) { ... }: st is [finalAnswer, finalConversationId,
\* messageId, ...].  'break' on message_end leaves this loop only; the throw
\* on an error frame is caught by the catch around JSON.parse and dropped.
RECURSIVE BufferedLines(_, _, _)
BufferedLines(lines, i, st) ==
    IF i > Len(lines) THEN st
    ELSE LET line == lines[i]
             parsed == JSONParse(SliceFrom(line, 6))
             data == parsed.value
         IN  IF ~StartsWith(line, DataSpacePrefix) \/ ~parsed.ok
             THEN BufferedLines(lines, i + 1, st)
             ELSE IF data.event = "message" THEN
                 BufferedLines(lines, i + 1,
                     [AppendDelta(st, data) EXCEPT
                                !.finalConversationId =
                                    IF data.conversation_id # "" THEN data.conversation_id ELSE @,
                                !.messageId = IF data.id # "" THEN data.id ELSE @])
             ELSE IF data.event = "agent_message" THEN
                 BufferedLines(lines, i + 1, AppendDelta(st, data))
             ELSE IF data.event = "agent_thought" THEN
                 BufferedLines(lines, i + 1, ThoughtFallback(st, data))
             ELSE IF data.event = "message_end" THEN st
             ELSE BufferedLines(lines, i + 1, st)

\* One turn of the buffered read loop: buffer += chunk; lines = buffer.split('\n');
\* buffer = lines.pop() || ''
BufferedChunk(st, value) ==
    LET d == DecodeStream(st.decoder, value)
        lines == Split(st.buffer \o d.text)
        last == lines[Len(lines)]
    IN  BufferedLines(SubSeq(lines, 1, Len(lines) - 1), 1,
            [st EXCEPT !.decoder = d.pending, !.buffer = last])

\* ------------------------------------------------------ reasoning markup

RECURSIVE IndexOfChar(_, _, _)
IndexOfChar(s, c, i) ==
    IF i > Len(s) THEN 0 ELSE IF s[i] = c THEN i ELSE IndexOfChar(s, c, i + 1)

\* how many characters of s the opening tag takes at index i (0: none there)
OpenAt(s, i) ==
    IF s[i] = ThinkOpen THEN 1
    ELSE IF i < Len(s) /\ s[i] = ThinkOpenHead /\ s[i + 1] = ThinkOpenTail THEN 2
    ELSE 0

RECURSIVE IndexOfOpen(_, _)
IndexOfOpen(s, i) ==
    IF i > Len(s) THEN 0 ELSE IF OpenAt(s, i) > 0 THEN i ELSE IndexOfOpen(s, i + 1)

\* a removal pass that leaves the text as it is
StripNothing(s) == s

\* finalAnswer.replace(/<think>[\s\S]*?<\/think>/gi, ''): every non-greedy
\* match, left to right, in one scan of the original text; an unclosed tag is
\* left in place
RECURSIVE StripThink(_)
StripThink(s) ==
    LET o == IndexOfOpen(s, 1)
        c == IF o = 0 THEN 0 ELSE IndexOfChar(s, ThinkClose, o + OpenAt(s, o))
    IN  IF o = 0 \/ c = 0 THEN s
        ELSE SubSeq(s, 1, o - 1) \o StripThink(SubSeq(s, c + 1, Len(s)))

\* --------------------------------------------------------- the upstream

\* Upstream responses: status, the ok flag fetch derives from it, whether the
\* declared content type is text/event-stream, whether a body stream exists,
\* and whether the error body mentions a conversation.
Response(status, sse, hasBody, mentionsConversation) ==
    [status |-> status, ok |-> (status >= 200 /\ status <= 299), sse |-> sse,
     hasBody |-> hasBody, mentionsConversation |-> mentionsConversation]

NoResponse == Response(0, FALSE, FALSE, FALSE)

Responses ==
    { Response(200, TRUE, TRUE, FALSE),     \* a real event stream
      Response(200, FALSE, TRUE, FALSE),    \* 200 with application/json
      Response(200, TRUE, FALSE, FALSE),    \* 200 without a body
      Response(401, FALSE, TRUE, FALSE),    \* plain JSON error
      Response(404, FALSE, TRUE, TRUE),     \* conversation not found
      Response(500, FALSE, TRUE, FALSE) }

Frame(k) == DataSpacePrefix \o Json(k) \o <<LF, LF>>

\* The upstream byte streams of the model.
Streams ==
    << Frame("h") \o Frame("l") \o Frame("e"),
       <<"d", "a", "t", "a", ":", SP, "{", ByteHi, ByteLo, "}", LF, LF>>
           \o DataSpacePrefix \o DONE \o <<LF, LF>>,
       DataSpacePrefix \o <<"z", LF, LF>> \o Frame("r") \o Frame("e"),
       Frame("h") \o Frame("e") \o Frame("l"),
       DataPrefix \o Json("c") \o <<LF, LF>> \o Frame("t") \o DataSpacePrefix \o Json("h"),
       DataSpacePrefix \o Json("e") \o <<LF>> \o DataSpacePrefix \o Json("h") \o <<LF, LF>>,
       DataSpacePrefix \o <<"z", LF, LF>> \o Frame("t") \o Frame("c"),
       Frame("h") \o Frame("t") \o Frame("e"),
       Frame("k") \o Frame("e"),
       Frame("n"),
       Frame("w"),
       Frame("f") \o Frame("b") \o Frame("e") >>

\* the streams a session of Spec may be served
SessionStreams == {1, 2, 3, 4, 5, 7, 8, 9, 10, 11, 12}

\* ---------------------------------------------------- request builder

\* JSON values of a request payload: a string is the sequence of its
\* characters (97 is 'a'), a number the sequence holding it.
Str(n) == [t |-> "string", v |-> [i \in 1..n |-> 97]]
Num(n) == [t |-> "number", v |-> <<n>>]

\* A player object: a function from its own property names to values.
Player(i, nameLen) == [id |-> Num(i), name |-> Str(nameLen), overallRank |-> Num(i)]
Players(n, nameLen) == [i \in 1..n |-> Player(i, nameLen)]
NoPlayer == [k \in {} |-> Num(0)]          \* undefined

\* process.env.MAX_AVAILABLE_PLAYERS || 200
MaxAvailablePlayers == 200
\* slimPlayers: max = process.env.MAX_INIT_PLAYERS || 200
SlimMax == 200
\* slimPlayers: maxStr = process.env.MAX_STRING_LEN || 200
SlimMaxStr == 200
\* routes/draft.js: process.env.MAX_INIT_PLAYERS || 50
MAX_INIT_PLAYERS == 50
\* slimPlayers: allowed = process.env.PLAYER_ALLOWED_FIELDS || 'id,name,position,team,byeWeek,adp'
SlimAllowed == {"id", "name", "position", "team", "byeWeek", "adp"}

\* if (typeof v === 'string' && v.length > maxStr) v = v.slice(0, maxStr)
TruncateString(v) ==
    IF v.t = "string" /\ Len(v.v) > SlimMaxStr
    THEN [v EXCEPT !.v = SubSeq(@, 1, SlimMaxStr)] ELSE v

\* slimPlayers(players): players.slice(0, max), each reduced to the allowed
\* properties it has
SlimPlayers(players) ==
    LET take == SubSeq(players, 1, Min(SlimMax, Len(players)))
    IN  [i \in DOMAIN take |->
            [k \in SlimAllowed \cap DOMAIN take[i] |-> TruncateString(take[i][k])]]

\* a trim that slices whatever availablePlayers is
TrimWithoutGuards(p) ==
    [p EXCEPT !.availablePlayers = SubSeq(@, 1, Min(MaxAvailablePlayers, Len(@)))]

\* trimAvailablePlayersIfNeeded(payload).  A payload says whether it is null
\* (isNull) and what its availablePlayers is (availablePlayersIs): "array",
\* "string" (held as its characters) or "undefined".
TrimAvailablePlayersIfNeeded(p) ==
    IF p.isNull \/ p.availablePlayersIs = "undefined" \/ p.availablePlayersIs # "array"
    THEN p
    ELSE IF Len(p.availablePlayers) > MaxAvailablePlayers
    THEN [p EXCEPT !.availablePlayers = SubSeq(@, 1, MaxAvailablePlayers)]
    ELSE p

\* The outcome of building a request.  A built body holds what the code puts
\* into it from the payload: kind names the message template or inputs
\* object, the other fields the values placed in it (JSON.stringify of an
\* array or object is held as that array or object).
NoBody ==
    [ok |-> FALSE, error |-> "none", kind |-> "", query |-> Str(0), message |-> Str(0),
     player |-> NoPlayer, players |-> <<>>, userRoster |-> <<>>, availablePlayers |-> <<>>]

Body(kind) == [NoBody EXCEPT !.ok = TRUE, !.error = "", !.kind = kind]
BuildError(error) == [NoBody EXCEPT !.error = error]

\* a builder whose default case passes the payload on
BuildDifyMessageLenient(a, p) ==
    [Body("json") EXCEPT !.query = p.query, !.message = p.message, !.player = p.player,
                          !.players = p.players, !.userRoster = p.userRoster,
                          !.availablePlayers = p.availablePlayers]

\* buildDifyMessage(action, payload)
BuildDifyMessage(a, p) ==
    CASE a = "legacy" -> [Body("legacy") EXCEPT !.query = p.query]
      [] a = "reset" -> [Body("reset") EXCEPT !.message = p.message]
      [] a = "initialize" -> [Body("initialize") EXCEPT !.players = SlimPlayers(p.players)]
      [] a = "player-taken" -> [Body("player-taken") EXCEPT !.player = p.player]
      [] a = "user-turn" ->
             LET t == TrimAvailablePlayersIfNeeded(p)
             IN  [Body("user-turn") EXCEPT !.player = t.player, !.userRoster = t.userRoster,
                                           !.availablePlayers = t.availablePlayers]
      [] a = "analyze" ->
             LET t == TrimAvailablePlayersIfNeeded(p)
             IN  [Body("analyze") EXCEPT !.userRoster = t.userRoster,
                                         !.availablePlayers = t.availablePlayers]
      [] a = "query" ->
             LET t == TrimAvailablePlayersIfNeeded(p)
             IN  [Body("query") EXCEPT !.query = t.query, !.userRoster = t.userRoster,
                                       !.availablePlayers = t.availablePlayers]
      [] OTHER -> BuildError("Unknown action type")

\* sendToDifyStreaming: the initialize validation, then difyPayload
SendToDifyStreamingBody(a, p) ==
    IF a = "initialize"
    THEN [Body("initialize-inputs") EXCEPT !.players = SlimPlayers(p.players)]
    ELSE BuildDifyMessage(a, p)

\* validateStreamingRequest(req.body): "" if the request is valid, or the
\* message of the Error it throws
ValidateStreamingRequest(a, p) ==
    IF a \notin {"initialize", "reset", "player-taken", "user-turn", "legacy"}
    THEN "Invalid action"
    ELSE IF a = "legacy" /\ p.query = Str(0) THEN "Legacy action requires: query"
    ELSE IF a = "initialize" /\ (p.numTeams = 0 \/ p.userPickPosition = 0)
    THEN "Initialize action requires"
    ELSE IF a = "player-taken" /\ (p.player = NoPlayer \/ p.round = 0 \/ p.pick = 0)
    THEN "Player-taken action requires"
    ELSE IF a = "user-turn" /\ (p.player = NoPlayer \/ p.userRoster = <<>>
                                \/ p.availablePlayers = <<>>)
    THEN "User-turn action requires"
    ELSE ""

\* buildSimpleMessage(action, payload)
BuildSimpleMessage(a, p) ==
    CASE a = "initialize" ->
             [Body("initialize") EXCEPT !.players = SubSeq(p.players, 1, Min(50, Len(p.players)))]
      [] a = "user-turn" ->
             [Body("user-turn") EXCEPT
                 !.player = p.player, !.userRoster = p.userRoster,
                 !.availablePlayers =
                     SubSeq(p.availablePlayers, 1, Min(20, Len(p.availablePlayers)))]
      [] OTHER ->
             [Body("json") EXCEPT !.query = p.query, !.message = p.message,
                                  !.player = p.player, !.players = p.players,
                                  !.userRoster = p.userRoster,
                                  !.availablePlayers = p.availablePlayers]

\* POST /api/llm/stream: validateStreamingRequest, then the difyPayload of
\* sendToDifyStreamingInstrumented
InstrumentedBody(a, p) ==
    IF ValidateStreamingRequest(a, p) # "" THEN BuildError(ValidateStreamingRequest(a, p))
    ELSE BuildSimpleMessage(a, p)

\* POST /initialize?stream=1: the checks on payload.players, then difyPayload
InitializeBody(p) ==
    IF Len(p.players) < 1 THEN BuildError("at least 1 player")
    ELSE IF Len(p.players) > MAX_INIT_PLAYERS THEN BuildError("at most MAX_INIT_PLAYERS players")
    ELSE [Body("initialize-route") EXCEPT !.availablePlayers = p.players]

\* POST /_debug/init-raw: availablePlayers: availablePlayers || players || []
InitRawBody(p) == [Body("initialize-route") EXCEPT !.availablePlayers = p.availablePlayers]

\* POST /analyze (rosters): one non-empty roster, forwarded as it is, with
\* the caller's query text
AnalyzeBody(p) ==
    IF p.userRoster = <<>> THEN BuildError("Provide exactly one non-empty roster")
    ELSE [Body("analyze-roster") EXCEPT !.query = p.query, !.userRoster = p.userRoster]

\* shapeInputsForStreaming: MAX_INIT_PLAYERS = process.env.MAX_INIT_PLAYERS || 25
ShapeMax == 25

\* the players of shapeInputsForStreaming: slice(0, MAX_INIT_PLAYERS), the
\* allowed properties, strings cut to MAX_STRING_LEN
ShapePlayers(players) ==
    LET take == SubSeq(players, 1, Min(ShapeMax, Len(players)))
    IN  [i \in DOMAIN take |->
            [k \in SlimAllowed \cap DOMAIN take[i] |-> TruncateString(take[i][k])]]

\* the streaming actions of the action route: the dispatch on the action,
\* the validation of handleStreamingAction, shapeInputsForStreaming, the query
ActionBody(a, p) ==
    IF a \notin {"initialize", "user-turn"} THEN BuildError("Unknown action")
    ELSE IF a = "initialize" THEN
        IF p.numTeams = 0 \/ p.userPickPosition = 0
        THEN BuildError("Initialize action requires")
        ELSE [Body("initialize-inputs") EXCEPT !.players = ShapePlayers(p.players)]
    ELSE IF p.player = NoPlayer \/ p.round = 0 \/ p.pick = 0
        THEN BuildError("User-turn action requires")
        ELSE [Body("user-turn") EXCEPT !.player = p.player, !.userRoster = p.userRoster,
                                       !.availablePlayers = ShapePlayers(p.availablePlayers)]

\* the body the handler i builds for (action, payload)
BuildBody(i, a, p) ==
    CASE i = "initialize" -> InitializeBody(p)
      [] i = "initraw" -> InitRawBody(p)
      [] i = "analyze" -> AnalyzeBody(p)
      [] i = "buffered" -> BuildDifyMessage(a, p)          \* getDifyBufferedResponse
      [] i = "unified" -> SendToDifyStreamingBody(a, p)
      [] i = "instrumented" -> InstrumentedBody(a, p)
      [] i = "action" -> ActionBody(a, p)

\* Request payloads of the model.
NoPayload ==
    [isNull |-> FALSE,
     query |-> Str(0), message |-> Str(0), numTeams |-> 0, userPickPosition |-> 0,
     player |-> NoPlayer, round |-> 0, pick |-> 0,
     players |-> <<>>, userRoster |-> <<>>, availablePlayers |-> <<>>,
     availablePlayersIs |-> "undefined"]

\* null in the place of a payload
NullPayload == [NoPayload EXCEPT !.isNull = TRUE]

FullPayload(n, strLen) ==
    [query |-> Str(strLen), message |-> Str(strLen), numTeams |-> 12, userPickPosition |-> 4,
     player |-> Player(1, strLen), round |-> 1, pick |-> 5,
     players |-> Players(n, strLen), userRoster |-> Players(n, strLen),
     availablePlayers |-> Players(n, strLen), availablePlayersIs |-> "array",
     isNull |-> FALSE]

\* the arguments of trimAvailablePlayersIfNeeded in SpecTrim: null, a payload
\* without availablePlayers, one whose availablePlayers is a string (of 12 or
\* of 201 characters), and arrays of every length up to MaxTrimLen
TrimInputs ==
    {NullPayload, NoPayload, [NoPayload EXCEPT !.player = Player(1, 3)]}
        \cup {[NoPayload EXCEPT !.availablePlayers = Str(n).v, !.availablePlayersIs = "string"] :
                  n \in {12, 201}}
        \cup {[FullPayload(1, 3) EXCEPT !.availablePlayers = Players(n, 3)] : n \in 0..MaxTrimLen}

Payloads ==
    { NoPayload,
      FullPayload(2, 3),        \* within every limit
      FullPayload(260, 3),      \* arrays over the limits
      FullPayload(2, 201) }     \* strings over the limit

Actions ==
    {"legacy", "reset", "initialize", "player-taken", "user-turn", "analyze", "query",
     "bogus"}

\* ------------------------------------------------- the debug transcript

\* const MAX_TRANSCRIPT_ENTRIES = 200
MAX_TRANSCRIPT_ENTRIES == 200

\* STREAM_TRANSCRIPTS = new Map(): a function from the correlation ids that
\* have a transcript to their entries
NoTranscripts == [r \in {} |-> <<>>]

\* a record() that never drops anything
recordUncapped(m, reqId, entry) ==
    [r \in DOMAIN m \cup {reqId} |->
        IF r = reqId THEN Append(IF r \in DOMAIN m THEN m[r] ELSE <<>>, entry) ELSE m[r]]

\* record(reqId, entry) with DIFY_DEBUG=1: entries.push(entry), then
\* entries.splice(0, entries.length - MAX_TRANSCRIPT_ENTRIES) if over the cap
record(m, reqId, entry) ==
    LET old == IF reqId \in DOMAIN m THEN m[reqId] ELSE <<>>
        pushed == Append(old, entry)
        kept == IF Len(pushed) > MAX_TRANSCRIPT_ENTRIES
                THEN SubSeq(pushed, Len(pushed) - MAX_TRANSCRIPT_ENTRIES + 1, Len(pushed))
                ELSE pushed
    IN  [r \in DOMAIN m \cup {reqId} |-> IF r = reqId THEN kept ELSE m[r]]

\* getTranscript(reqId): STREAM_TRANSCRIPTS.get(reqId) || []
getTranscript(m, reqId) == IF reqId \in DOMAIN m THEN m[reqId] ELSE <<>>

ReqIds == {"req-1", "req-2"}

\* --------------------------------------------- controllers and timers

NewSignal == [aborted |-> FALSE, reason |-> ""]

\* AbortController.abort(reason): the first call fixes the reason
Abort(signal, reason) ==
    IF signal.aborted THEN signal ELSE [aborted |-> TRUE, reason |-> reason]

TimerNames == {"deadline", "watchdog", "inner", "ping", "routeTimeout"}

\* clearTimeout / clearInterval
ClearTimer(timers, name) ==
    [timers EXCEPT ![name] = IF @ = "armed" THEN "cleared" ELSE @]

\* The name of the value a pending fetch() or read() rejects with once its
\* signal is aborted.  Depending on the runtime the rejection is a
\* DOMException named AbortError, or the abort reason itself: the string
\* 'timeout' has no name, new Error('client-aborted') is named Error, and
\* abort() without a reason gives a DOMException named AbortError.
RejectionName(style, signal) ==
    IF style = "AbortError" THEN "AbortError"
    ELSE CASE signal.reason = "timeout" -> ""
           [] signal.reason = "Error(client-aborted)" -> "Error"
           [] OTHER -> "AbortError"

\* ------------------------------------------------------------- the state

VARIABLES
    impl,                \* which handler serves the session
    abortStyle,          \* what the runtime rejects with on abort (RejectionName)
    unhandled,           \* what the runtime does with an unhandled rejection
    chunking,            \* "frame": one frame per read; "bytes": 1..MaxChunk bytes
    conversationId,      \* the continuation id of the request ("" if none)
    upstream,            \* the response fetch() resolved with (NoResponse before)
    stream,              \* the bytes of the upstream body
    pos,                 \* how many of them have been read
    clientGone,          \* the caller has disconnected
    goneAt,              \* Len(res.records) when the caller disconnected
    pings,               \* keep-alive ticks so far
    clock,               \* which timer delays are over: "started", "watchdogDue", "deadlineDue"
    pc,                  \* where the handler is suspended
    timers,              \* state of each timer
    signal,              \* the AbortController the handler cancels with
    routeSignal,         \* the route-level AbortController of POST /api/llm/stream
    clientAborted,       \* the clientAborted flag of /initialize and /analyze
    firstChunkSeen,
    decoder,             \* bytes the TextDecoder holds back
    buffer,
    finalConversationId,
    streamCompleted,
    finalAnswer,
    messageId,
    res,                 \* the caller's response (pass-through sink)
    result,              \* what the buffered call returned ("none" before)
    action,              \* the action identifier of the call
    payload,             \* the payload of the call
    request,             \* the body built for upstream (NoBody before the build)
    trimmed,             \* what trimAvailablePlayersIfNeeded returned (SpecTrim)
    debug,               \* process.env.DIFY_DEBUG === '1'
    transcripts,         \* STREAM_TRANSCRIPTS
    calls                \* calls of record() so far (the time now() returns)

vars ==
    <<impl, abortStyle, unhandled, chunking, conversationId, upstream, stream, pos, clientGone,
      goneAt, pings,
      clock, pc, timers, signal, routeSignal, clientAborted, firstChunkSeen, decoder, buffer,
      finalConversationId, streamCompleted, finalAnswer, messageId, res, result,
      action, payload, request, trimmed, debug, transcripts, calls>>

buildVars == <<action, payload, request, trimmed>>

debugVars == <<debug, transcripts, calls>>

envVars == <<impl, abortStyle, unhandled, chunking, conversationId, stream>>

\* The handler's own state as one value, so that a handler is an operator
\* from state to state.
H ==
    [pc |-> pc, timers |-> timers, signal |-> signal, routeSignal |-> routeSignal,
     clientAborted |-> clientAborted, firstChunkSeen |-> firstChunkSeen,
     decoder |-> decoder, buffer |-> buffer,
     finalConversationId |-> finalConversationId, streamCompleted |-> streamCompleted,
     finalAnswer |-> finalAnswer, messageId |-> messageId, res |-> res,
     result |-> result]

Install(h) ==
    /\ pc' = h.pc
    /\ timers' = h.timers
    /\ signal' = h.signal
    /\ routeSignal' = h.routeSignal
    /\ clientAborted' = h.clientAborted
    /\ firstChunkSeen' = h.firstChunkSeen
    /\ decoder' = h.decoder
    /\ buffer' = h.buffer
    /\ finalConversationId' = h.finalConversationId
    /\ streamCompleted' = h.streamCompleted
    /\ finalAnswer' = h.finalAnswer
    /\ messageId' = h.messageId
    /\ res' = h.res
    /\ result' = h.result

NdjsonRoutes == {"initialize", "analyze", "initraw"}
SseRelays == {"unified", "action", "instrumented"}
Impls == NdjsonRoutes \cup SseRelays \cup {"buffered"}

\* ------------------------------------------ the NDJSON routes (pass-through)

\* finally { clearTimeout(timeoutId); clearInterval(pingInterval); res.end() }
\* (/_debug/init-raw has no finally: res.end() follows the try)
StreamFinally(route, h) ==
    LET t == CASE route = "initialize" ->
                     ClearTimer(ClearTimer(h.timers, "deadline"), "ping")
               [] route = "analyze" -> ClearTimer(h.timers, "deadline")
               [] OTHER -> h.timers
    IN  [h EXCEPT !.timers = t, !.res = ResEnd(@), !.pc = "returned"]

\* catch (streamError) of the read loop; name is streamError.name
StreamCatch(route, h, name) ==
    LET written ==
            IF route = "initraw" THEN
                ResWrite(h.res,
                    ErrorEvent(IF name = "AbortError" THEN "timeout" ELSE "stream_error"))
            ELSE IF name = "AbortError" THEN
                IF h.signal.reason = "timeout"
                THEN ResWrite(h.res, ErrorEvent("timeout")) ELSE h.res
            ELSE ResWrite(h.res, ErrorEvent("fetch_error"))
    IN  StreamFinally(route, [h EXCEPT !.res = written])

\* An exception leaves the async route handler: its promise rejects and
\* nobody handles the rejection.  The runtime terminates the process (the
\* default since Node 15) or only warns; the response is left as it is.
HandlerRejects(h) ==
    [h EXCEPT !.pc = IF unhandled = "throw" THEN "crashed" ELSE "rejected"]

\* the outer catch, reached when fetch() itself rejects; name is error.name.
\* In /initialize the catch starts with clearTimeout(timeoutId);
\* clearInterval(pingInterval), and pingInterval is a const of the try block,
\* not in scope in the catch: evaluating it throws a ReferenceError out of
\* the catch, the finally after it only logs.
OuterCatch(route, h, name) ==
    LET t == ClearTimer(h.timers, "deadline")
        isAbort == name = "AbortError"
        written ==
            CASE route = "analyze" ->
                     IF isAbort /\ h.signal.reason = "timeout"
                     THEN ResWrite(h.res, ErrorEvent("timeout"))
                     ELSE IF ~isAbort \/ ~h.clientAborted
                     THEN ResWrite(h.res, ErrorEvent("fetch_error"))
                     ELSE h.res
              [] OTHER -> ResWrite(h.res, ErrorEvent("fetch_error"))
    IN  IF route = "initialize" THEN HandlerRejects([h EXCEPT !.timers = t])
        ELSE [h EXCEPT !.timers = t, !.res = ResEnd(written), !.pc = "returned"]

\* fetch() resolved: the preflight check, then the reader
NdjsonOnResponse(route, h, resp) ==
    LET h0 == IF route = "initraw"
              THEN [h EXCEPT !.timers = ClearTimer(@, "deadline")] ELSE h
    IN  IF ~resp.ok \/ ~resp.sse THEN
            [h0 EXCEPT !.res = ResEnd(ResWrite(@, ErrorEvent("bad_upstream_status"))),
                       !.pc = "returned"]
        ELSE IF ~resp.hasBody THEN
            [h0 EXCEPT !.res = ResEnd(ResWrite(@,
                                  IF route = "initraw" THEN ErrorEvent("no_reader")
                                  ELSE Record("", "final", "", NoObj, <<>>))),
                       !.pc = "returned"]
        ELSE [h0 EXCEPT !.pc = "read"]

\* reader.read() returned a chunk
NdjsonOnChunk(route, h, value) ==
    LET h0 == IF route = "initialize" /\ ~h.firstChunkSeen
              THEN [h EXCEPT !.firstChunkSeen = TRUE, !.timers = ClearTimer(@, "ping")]
              ELSE h
    IN  PassThroughChunk(route, h0, value)

\* reader.read() returned done
NdjsonOnDone(route, h) ==
    StreamFinally(route,
        IF route # "initraw" /\ h.streamCompleted
        THEN [h EXCEPT !.res = ResWrite(@, CompletionEvent(
                  IF route = "initialize" THEN h.finalConversationId ELSE ""))]
        ELSE h)

\* req.on('aborted'): streamCompleted is declared inside the try block and is
\* not in scope here, so evaluating it throws a ReferenceError out of the
\* listener (an uncaught exception) unless res.writableEnded short-circuits
NdjsonOnAborted(route, h) ==
    IF route = "initraw" THEN h
    ELSE IF ~h.res.writableEnded
    THEN [h EXCEPT !.clientAborted = TRUE, !.pc = "crashed"]
    ELSE [h EXCEPT !.clientAborted = TRUE]

\* setInterval(() => { if (!firstChunkSeen && !res.writableEnded) res.write(ping) })
NdjsonOnPing(h) ==
    IF ~h.firstChunkSeen /\ ~h.res.writableEnded
    THEN [h EXCEPT !.res = ResWrite(@, Record("ping", "", "", NoObj, <<>>))]
    ELSE h

\* ------------------------------------------------- UnifiedDifyClient errors

\* A thrown value, as far as the catch blocks look at it: its name, its code,
\* the error kind of a mapped object, and whether its message contains
\* 'timeout' / 'fetch'.
Err(name, code, error, msgTimeout, msgFetch) ==
    [name |-> name, code |-> code, error |-> error, msgTimeout |-> msgTimeout,
     msgFetch |-> msgFetch]

AbortErr == Err("AbortError", "", "", FALSE, FALSE)     \* 'This operation was aborted'
FetchFailed == Err("TypeError", "", "", FALSE, TRUE)    \* 'fetch failed'
Terminated == Err("TypeError", "", "", FALSE, FALSE)    \* 'terminated'
PlainError == Err("Error", "", "", FALSE, FALSE)

\* what a pending fetch() or read() rejects with once its signal is aborted
Rejection(style, sig) ==
    LET n == RejectionName(style, sig)
    IN  IF n = "AbortError" THEN AbortErr ELSE Err(n, "", "", FALSE, FALSE)

\* mapResponseError: the object describing a non-ok response
MapResponseError(resp) ==
    IF resp.status = 404 /\ resp.mentionsConversation
    THEN Err("", "", "invalid_conversation", FALSE, FALSE)
    ELSE IF resp.status >= 500 THEN Err("", "", "upstream_error", FALSE, FALSE)
    ELSE Err("", "", "bad_request", FALSE, FALSE)

\* mapError: the object postStreaming throws from its catch
MapError(err) ==
    IF err.name = "AbortError" THEN Err("", "", "timeout", TRUE, FALSE)
    ELSE IF err.code = "ECONNREFUSED" \/ err.code = "ENOTFOUND" \/ err.code = "EAI_AGAIN"
         \/ err.msgFetch
    THEN Err("", "", "upstream_error", FALSE, FALSE)
    ELSE Err("", "", "upstream_error", err.msgTimeout, err.msgFetch)

\* --------------------------------------------------------- buffered mode

NoResult == [ok |-> FALSE, error |-> "none", answer |-> <<>>, conversation_id |-> "", id |-> ""]

\* catch (error) of postStreamingBuffered: the error result returned
BufferedFail(h, err) ==
    LET errorType == IF err.name = "AbortError" \/ err.msgTimeout
                     THEN "timeout" ELSE "stream_error"
    IN  [h EXCEPT !.result = [NoResult EXCEPT !.error = errorType], !.pc = "returned"]

\* postStreaming after fetch() resolved (the timeout is cleared), then the
\* start of postStreamingBuffered
BufferedOnResponse(h, resp) ==
    LET h1 == [h EXCEPT !.timers = ClearTimer(@, "inner")]
    IN  IF ~resp.ok THEN BufferedFail(h1, MapError(MapResponseError(resp)))
        ELSE IF ~resp.hasBody THEN BufferedFail(h1, PlainError)
        ELSE [h1 EXCEPT !.pc = "read"]

\* fetch() or reader.read() rejected
BufferedRejected(h, err) ==
    IF h.pc = "fetch"
    THEN BufferedFail([h EXCEPT !.timers = ClearTimer(@, "inner")], MapError(err))
    ELSE IF err.name = "AbortError"
    THEN BufferedFail(h, Err("Error", "", "", TRUE, FALSE))
    ELSE BufferedFail(h, err)

\* after the read loop: strip the reasoning markup, trim, return
BufferedOnDone(h) ==
    LET answer == IF h.finalAnswer # <<>> THEN Trim(StripThink(h.finalAnswer))
                  ELSE h.finalAnswer
    IN  [h EXCEPT !.finalAnswer = answer,
                  !.result = [ok |-> TRUE, error |-> "", answer |-> answer,
                              conversation_id |-> h.finalConversationId,
                              id |-> h.messageId],
                  !.pc = "returned"]

\* ------------------------------------------------- the buffered routes

\* JSON null in the place of a text
Null == <<"null">>

\* POST /user-turn after getDifyBufferedResponse succeeded: the answer of the
\* 200 reply.  let answer = result.data?.answer || null;
\* if (answer) answer = answer.replace(/<think>...<\/think>/gi, '').trim()
UserTurnAnswer(r) ==
    IF r.answer # <<>> THEN Trim(StripThink(r.answer)) ELSE Null

\* ----------------------------------------------------------- SSE relays

SseEvent(event, what) == Record(event, "", what, NoObj, <<>>)

\* sendSSEEvent(res, event, data)
sendSSEEvent(r, event, what) ==
    IF r.writableEnded THEN r ELSE ResWrite(r, SseEvent(event, what))

\* sendHeartbeat(res)
sendHeartbeat(r) == IF r.writableEnded THEN r ELSE ResWrite(r, SseEvent("keep-alive", ""))

\* sendSSEError(res, error, retryable): the error event is written; the
\* response is not ended here
sendSSEError(r, what) == IF r.writableEnded THEN r ELSE sendSSEEvent(r, "error", what)

\* sendSSEComplete(res, data)
sendSSEComplete(r) == IF r.writableEnded THEN r ELSE sendSSEEvent(r, "done", "")

\* cleanupAndEnd of the route: clear the heartbeat (and, in POST
\* /api/llm/stream, the route timeout), end the response if not ended
CleanupAndEnd(i, h) ==
    LET t == IF i = "instrumented"
             THEN ClearTimer(ClearTimer(h.timers, "ping"), "routeTimeout")
             ELSE ClearTimer(h.timers, "ping")
    IN  [h EXCEPT !.timers = t, !.res = ResEnd(@)]

\* catch (err) { if (!res.writableEnded) res.write(error) } finally { cleanupAndEnd() }
RelayCatch(i, h) ==
    LET t == CASE i = "unified" -> ClearTimer(ClearTimer(h.timers, "watchdog"), "deadline")
               [] i = "instrumented" -> ClearTimer(h.timers, "deadline")
               [] OTHER -> h.timers
        r == IF h.res.writableEnded THEN h.res
             ELSE ResWrite(h.res, SseEvent("error", "exception"))
    IN  CleanupAndEnd(i, [h EXCEPT !.timers = t, !.res = r, !.pc = "returned"])

\* fetch() or reader.read() rejected, or postStreaming threw
RelayRejected(i, h) ==
    IF i = "instrumented" /\ h.pc = "fetch" THEN
        \* only finally { clearTimeout(connectWatchdog) } is on the way: the
        \* rejection reaches the route's catch, which does not call cleanupAndEnd
        LET h1 == [h EXCEPT !.timers = ClearTimer(@, "watchdog"), !.pc = "returned"]
        IN  IF h1.res.writableEnded THEN h1
            ELSE [h1 EXCEPT !.res = ResEnd(sendSSEError(@, "exception"))]
    ELSE IF i = "action" /\ h.pc = "fetch" THEN
        RelayCatch(i, [h EXCEPT !.timers = ClearTimer(ClearTimer(@, "inner"), "watchdog")])
    ELSE IF i = "unified" /\ h.pc = "fetch" THEN
        RelayCatch(i, [h EXCEPT !.timers = ClearTimer(@, "inner")])
    ELSE RelayCatch(i, h)

\* fetch() resolved
RelayOnResponse(i, h, resp) ==
    LET viaClient == i \in {"unified", "action"}      \* through postStreaming
        h1 == [h EXCEPT !.timers =
                  IF i = "unified"
                  THEN ClearTimer(@, "inner")
                  ELSE IF i = "action"
                  THEN ClearTimer(ClearTimer(@, "inner"), "watchdog")
                  ELSE ClearTimer(@, "watchdog")]
        \* sendToDifyStreaming clears both of its timers once postStreaming returned
        h2 == IF i = "unified"
              THEN [h1 EXCEPT !.timers = ClearTimer(ClearTimer(@, "watchdog"), "deadline"),
                              !.res = ResWrite(@, SseEvent("phase", "upstream_response"))]
              ELSE h1
    IN  IF viaClient /\ ~resp.ok THEN RelayCatch(i, h1)
        ELSE IF ~resp.hasBody THEN
            IF i = "unified" THEN RelayCatch(i, h2)      \* response.body.getReader() throws
            ELSE RelayCatch(i, [h2 EXCEPT !.res = ResEnd(ResWrite(@, SseEvent("error", "no_body")))])
        ELSE IF ~resp.ok THEN
            RelayCatch(i, [h2 EXCEPT !.res = ResEnd(ResWrite(@, SseEvent("error", "upstream_status")))])
        ELSE [h2 EXCEPT !.pc = "read"]

\* res.write(value): the chunk goes out unchanged
RelayOnChunk(i, h, value) ==
    LET r == IF i = "unified"
             THEN ResWrite(h.res, SseEvent("phase", "upstream_chunk")) ELSE h.res
    IN  [h EXCEPT !.res = ResWrite(r, Record("raw", "", "", NoObj, value))]

\* the upstream body ended: event: done, then finally
RelayOnDone(i, h) ==
    LET r == IF i = "unified"
             THEN ResWrite(h.res, SseEvent("phase", "upstream_end")) ELSE h.res
        t == IF i = "instrumented" THEN ClearTimer(h.timers, "deadline") ELSE h.timers
    IN  CleanupAndEnd(i, [h EXCEPT !.res = ResWrite(r, SseEvent("done", "")),
                                   !.timers = t, !.pc = "returned"])

\* the connect watchdog's callback: abort, write the error, cleanupAndEnd
RelayWatchdogCallback(i, h) ==
    LET sig == IF i = "action" THEN h.signal ELSE Abort(h.signal, "AbortError")
    IN  CleanupAndEnd(i, [h EXCEPT !.signal = sig,
                                   !.res = ResWrite(@, SseEvent("error", "connect_timeout"))])

\* setInterval(() => { if (!res.writableEnded) res.write(': keep-alive') })
RelayOnHeartbeat(h) ==
    IF h.res.writableEnded THEN h
    ELSE [h EXCEPT !.res = ResWrite(@, SseEvent("keep-alive", ""))]

\* ------------------------------------------------------------- dispatch

\* a pending fetch() or reader.read() rejected with err
Rejected(i, h, err) ==
    CASE i \in NdjsonRoutes ->
             IF h.pc = "fetch" THEN OuterCatch(i, h, err.name)
             ELSE StreamCatch(i, h, err.name)
      [] i = "buffered" -> BufferedRejected(h, err)
      [] OTHER -> RelayRejected(i, h)

OnResponse(i, h, resp) ==
    CASE i \in NdjsonRoutes -> NdjsonOnResponse(i, h, resp)
      [] i = "buffered" -> BufferedOnResponse(h, resp)
      [] OTHER -> RelayOnResponse(i, h, resp)

OnChunk(i, h, value) ==
    CASE i \in NdjsonRoutes -> NdjsonOnChunk(i, h, value)
      [] i = "buffered" -> BufferedChunk(h, value)
      [] OTHER -> RelayOnChunk(i, h, value)

OnDone(i, h) ==
    CASE i \in NdjsonRoutes -> NdjsonOnDone(i, h)
      [] i = "buffered" -> BufferedOnDone(h)
      [] OTHER -> RelayOnDone(i, h)

\* Is the signal that `signal` models the one fetch() was given?  In
\* sendToDifyStreaming the AbortSignal itself is passed as postStreaming's
\* `signal`, which uses it as the controller: controller.signal is undefined
\* and the request cannot be cancelled.
FetchFollowsSignal(i) == i # "unified"

\* controller.abort(reason), and the unwinding of the handler if it waits on
\* a fetch() or read() that follows the signal
AbortAndUnwind(i, h, reason, style) ==
    LET h1 == [h EXCEPT !.signal = Abort(@, reason)]
    IN  IF FetchFollowsSignal(i) /\ ~h.signal.aborted /\ h.pc \in {"fetch", "read"}
        THEN Rejected(i, h1, Rejection(style, h1.signal))
        ELSE h1

\* the callback of the overall-deadline timer of the handler
OnDeadline(i, h, style) ==
    AbortAndUnwind(i, h, IF i \in NdjsonRoutes THEN "timeout" ELSE "AbortError", style)

\* the callback of postStreaming's timer: controller.abort().  With an
\* AbortSignal in place of the controller this is a TypeError thrown from a
\* timer callback (an uncaught exception)
OnInner(i, h, style) ==
    IF i = "unified" THEN [h EXCEPT !.pc = "crashed"]
    ELSE AbortAndUnwind(i, h, "AbortError", style)

\* the callback of the connect watchdog
OnWatchdog(i, h, style) ==
    LET h1 == RelayWatchdogCallback(i, h)
    IN  IF i = "instrumented" /\ ~h.signal.aborted /\ h.pc \in {"fetch", "read"}
        THEN Rejected(i, h1, Rejection(style, h1.signal))
        ELSE h1

\* setupTimeout's callback: aborts the route-level controller, which no
\* request was given
OnRouteTimeout(h) == [h EXCEPT !.routeSignal = Abort(@, "AbortError")]

OnPing(i, h) == IF i \in NdjsonRoutes THEN NdjsonOnPing(h) ELSE RelayOnHeartbeat(h)

\* the request's 'aborted' / 'close' listeners
OnClientGone(i, h, style) ==
    CASE i \in NdjsonRoutes -> NdjsonOnAborted(i, h)
      [] i = "buffered" -> h
      [] i = "action" -> CleanupAndEnd(i, h)
      [] i = "unified" -> [h EXCEPT !.signal = Abort(@, "AbortError")]
      [] OTHER ->
             \* setupAbortHandling's listener, then sendToDifyStreamingInstrumented's
             AbortAndUnwind(i,
                 CleanupAndEnd(i, [h EXCEPT !.routeSignal = Abort(@, "AbortError")]),
                 "AbortError", style)

\* -------------------------------------------------------------- actions

Fire(t, name) == [t EXCEPT ![name] = "fired"]

\* length of the next frame (to the end of its blank line), or what is left
NextFrameLen ==
    LET sep == IndexOfSep(SliceFrom(stream, pos))
    IN  IF sep = -1 THEN Len(stream) - pos ELSE sep + 2

ChunkSizes ==
    IF chunking = "frame" THEN {NextFrameLen}
    ELSE (1..Min(MaxChunk, Len(stream) - pos)) \cup {Len(stream) - pos}

FetchResolves ==
    \E resp \in Responses :
        /\ pc = "fetch"
        /\ upstream' = resp
        /\ Install(OnResponse(impl, H, resp))
        /\ UNCHANGED <<envVars, buildVars, debugVars, pos, clientGone, goneAt, pings, clock>>

FetchFails ==
    /\ pc = "fetch"
    /\ Install(Rejected(impl, H, FetchFailed))
    /\ UNCHANGED <<envVars, buildVars, debugVars, upstream, pos, clientGone, goneAt, pings, clock>>

ReadChunk ==
    \E n \in ChunkSizes :
        /\ pc = "read"
        /\ pos < Len(stream)
        /\ pos' = pos + n
        /\ Install(OnChunk(impl, H, SubSeq(stream, pos + 1, pos + n)))
        /\ UNCHANGED <<envVars, buildVars, debugVars, upstream, clientGone, goneAt, pings, clock>>

ReadDone ==
    /\ pc = "read"
    /\ pos = Len(stream)
    /\ Install(OnDone(impl, H))
    /\ UNCHANGED <<envVars, buildVars, debugVars, upstream, pos, clientGone, goneAt, pings, clock>>

ReadFails ==
    /\ pc = "read"
    /\ Install(Rejected(impl, H, Terminated))
    /\ UNCHANGED <<envVars, buildVars, debugVars, upstream, pos, clientGone, goneAt, pings, clock>>

\* a timer's callback runs if the timer is still armed when its delay is over
TimerDue(h, name) == h.pc # "crashed" /\ h.timers[name] = "armed"

Fired(h, name) == [h EXCEPT !.timers = Fire(@, name)]

\* The connect watchdog's delay (15 s) is over: its callback runs unless the
\* timer was cleared.
WatchdogElapses ==
    /\ pc # "crashed"
    /\ clock = "started"
    /\ clock' = "watchdogDue"
    /\ Install(IF TimerDue(H, "watchdog")
               THEN OnWatchdog(impl, Fired(H, "watchdog"), abortStyle)
               ELSE H)
    /\ UNCHANGED <<envVars, buildVars, debugVars, upstream, pos, clientGone, goneAt, pings>>

\* The overall deadline (235 s and more, after the watchdog's 15 s) is over:
\* the timers set with that delay run in the order they were set, the route's
\* before the relay's before postStreaming's.
DeadlineElapses ==
    /\ pc # "crashed"
    /\ clock = "watchdogDue"
    /\ clock' = "deadlineDue"
    /\ LET h1 == IF TimerDue(H, "routeTimeout")
                 THEN OnRouteTimeout(Fired(H, "routeTimeout")) ELSE H
           h2 == IF TimerDue(h1, "deadline")
                 THEN OnDeadline(impl, Fired(h1, "deadline"), abortStyle) ELSE h1
           h3 == IF TimerDue(h2, "inner")
                 THEN OnInner(impl, Fired(h2, "inner"), abortStyle) ELSE h2
       IN  Install(h3)
    /\ UNCHANGED <<envVars, buildVars, debugVars, upstream, pos, clientGone, goneAt, pings>>

\* the keep-alive interval (10 s or 20 s) ticks
PingFires ==
    /\ pc # "crashed"
    /\ timers["ping"] = "armed"
    /\ pings < MaxPings
    /\ pings' = pings + 1
    /\ Install(OnPing(impl, H))
    /\ UNCHANGED <<envVars, buildVars, debugVars, upstream, pos, clientGone, goneAt, clock>>

ClientDisconnects ==
    /\ pc # "crashed"
    /\ ~clientGone
    /\ clientGone' = TRUE
    /\ goneAt' = Len(res.records)
    /\ Install(OnClientGone(impl, H, abortStyle))
    /\ UNCHANGED <<envVars, buildVars, debugVars, upstream, pos, pings, clock>>

\* -------------------------------------------------------- specifications

\* the timers each handler arms before it calls fetch()
InitialTimers(i) ==
    [n \in TimerNames |->
        IF \/ (n = "deadline" /\ i \in NdjsonRoutes \cup {"unified", "instrumented"})
           \/ (n = "inner" /\ i \in {"buffered", "unified", "action"})
           \/ (n = "watchdog" /\ i \in SseRelays)
           \/ (n = "ping" /\ i \in {"initialize", "action", "instrumented"})
           \/ (n = "routeTimeout" /\ i = "instrumented")
        THEN "armed" ELSE "unset"]

\* what the handler wrote before it called fetch()
InitialResponse(i) ==
    CASE i \in {"action", "instrumented"} ->
             ResWrite(NewResponse, SseEvent("keep-alive", ""))
      [] i = "unified" -> ResWrite(NewResponse, SseEvent("phase", "calling_upstream"))
      [] OTHER -> NewResponse

InitCommon ==
    /\ abortStyle \in {"AbortError", "reason"}
    /\ unhandled \in {"throw", "warn"}
    /\ pos = 0
    /\ clientGone = FALSE
    /\ goneAt = -1
    /\ pings = 0
    /\ clock = "started"
    /\ signal = NewSignal
    /\ routeSignal = NewSignal
    /\ clientAborted = FALSE
    /\ firstChunkSeen = FALSE
    /\ decoder = <<>>
    /\ buffer = <<>>
    /\ conversationId \in {"", "conv-1"}
    /\ finalConversationId = conversationId
    /\ streamCompleted = FALSE
    /\ finalAnswer = <<>>
    /\ messageId = ""
    /\ result = NoResult
    /\ transcripts = NoTranscripts
    /\ calls = 0
    /\ trimmed = NoPayload

\* the call of the sessions followed from fetch() on
SessionAction == "initialize"
SessionPayload == FullPayload(2, 3)

Init ==
    /\ InitCommon
    /\ impl \in Impls
    /\ chunking = "frame"
    /\ stream \in {Streams[k] : k \in SessionStreams}
    /\ upstream = NoResponse
    /\ pc = "fetch"
    /\ timers = InitialTimers(impl)
    /\ res = InitialResponse(impl)
    /\ action = SessionAction
    /\ payload = SessionPayload
    /\ request = BuildBody(impl, action, payload)
    /\ debug = FALSE

Next ==
    \/ FetchResolves
    \/ FetchFails
    \/ ReadChunk
    \/ ReadDone
    \/ ReadFails
    \/ WatchdogElapses
    \/ DeadlineElapses
    \/ PingFires
    \/ ClientDisconnects

Spec == Init /\ [][Next]_vars

\* Sessions in which time goes on: the delays of the timers run out (the
\* event loop runs the callbacks that are due), while nothing obliges
\* upstream to answer, to send more bytes or to close its stream, nor the
\* caller to disconnect.  What the stream holds makes no difference to
\* that, so one stream is followed.
InitLive == Init /\ stream = Streams[1]

SpecLive ==
    InitLive /\ [][Next]_vars /\ WF_vars(WatchdogElapses) /\ WF_vars(DeadlineElapses)

\* The frame parsers alone: a response that passed preflight is read to its
\* end in chunks of every size from one byte up.
ParserImpls == NdjsonRoutes \cup {"buffered"}

InitParse ==
    /\ InitCommon
    /\ impl \in ParserImpls
    /\ chunking = "bytes"
    /\ stream \in {Streams[k] : k \in DOMAIN Streams}
    /\ upstream = Response(200, TRUE, TRUE, FALSE)
    /\ pc = "read"
    /\ timers = [n \in TimerNames |-> "unset"]
    /\ res = NewResponse
    /\ action = SessionAction
    /\ payload = SessionPayload
    /\ request = BuildBody(impl, action, payload)
    /\ debug = FALSE

NextParse ==
    \/ ReadChunk
    \/ ReadDone

SpecParse == InitParse /\ [][NextParse]_vars

\* What a handler does when no request could be built.  The JSON routes
\* reply 400 before anything is set up; getDifyBufferedResponse rejects;
\* sendToDifyStreaming catches the Error, writes an error event and cleans
\* up; the catch of POST /api/llm/stream writes the error and ends the
\* response; handleStreamingAction writes an error event and cleans up.
BuildFailed(i, h, body) ==
    CASE i \in NdjsonRoutes \/ (i = "action" /\ body.error = "Unknown action") ->
             [h EXCEPT !.pc = "returned",
                       !.res = ResEnd(ResWrite(NewResponse, Record("reply", "", "400", NoObj, <<>>)))]
      [] i = "buffered" ->
             [h EXCEPT !.pc = "returned", !.result = [NoResult EXCEPT !.error = "thrown"]]
      [] i = "unified" ->
             RelayCatch(i, [h EXCEPT !.timers = [@ EXCEPT !["watchdog"] = "armed",
                                                          !["deadline"] = "armed"]])
      [] i = "instrumented" ->
             [h EXCEPT !.pc = "returned",
                       !.timers = [@ EXCEPT !["ping"] = "armed", !["routeTimeout"] = "armed"],
                       !.res = ResEnd(sendSSEError(InitialResponse(i), "exception"))]
      [] i = "action" ->
             RelayCatch(i, [h EXCEPT !.timers = [@ EXCEPT !["ping"] = "armed"],
                                     !.res = InitialResponse(i)])

\* The handler builds the request body and, if there is one, arms its timers
\* and calls fetch().
Build ==
    /\ pc = "build"
    /\ request' = BuildBody(impl, action, payload)
    /\ Install(IF request'.ok
               THEN [H EXCEPT !.pc = "fetch", !.timers = InitialTimers(impl),
                              !.res = InitialResponse(impl)]
               ELSE BuildFailed(impl, H, request'))
    /\ UNCHANGED <<envVars, debugVars, action, payload, trimmed, upstream, pos, clientGone, goneAt, pings, clock>>

\* the action identifiers a call to handler i may carry (the JSON routes
\* take none)
ActionsOf(i) ==
    IF i \in NdjsonRoutes THEN {SessionAction}
    ELSE IF i = "action" THEN {"initialize", "user-turn", "bogus"}
    ELSE Actions

InitBuild ==
    /\ InitCommon
    /\ impl \in Impls
    /\ chunking = "frame"
    /\ stream = Streams[1]
    /\ upstream = NoResponse
    /\ pc = "build"
    /\ timers = [n \in TimerNames |-> "unset"]
    /\ res = NewResponse
    /\ action \in ActionsOf(impl)
    /\ payload \in Payloads
    /\ request = NoBody
    /\ debug = FALSE

NextBuild ==
    \/ Build
    \/ FetchResolves
    \/ FetchFails

SpecBuild == InitBuild /\ [][NextBuild]_vars

\* trimAvailablePlayersIfNeeded alone, applied to each argument of TrimInputs
TrimCall ==
    /\ pc = "trim"
    /\ pc' = "trimmed"
    /\ trimmed' = TrimAvailablePlayersIfNeeded(payload)
    /\ UNCHANGED <<envVars, debugVars, action, payload, request, upstream, pos, clientGone,
                   goneAt, pings, clock, timers, signal, routeSignal, clientAborted,
                   firstChunkSeen, decoder, buffer, finalConversationId, streamCompleted,
                   finalAnswer, messageId, res, result>>

InitTrim ==
    /\ InitCommon
    /\ impl = "buffered"
    /\ chunking = "frame"
    /\ stream = Streams[1]
    /\ upstream = NoResponse
    /\ pc = "trim"
    /\ timers = [n \in TimerNames |-> "unset"]
    /\ res = NewResponse
    /\ action = "user-turn"
    /\ payload \in TrimInputs
    /\ request = NoBody
    /\ debug = FALSE

NextTrim == TrimCall

SpecTrim == InitTrim /\ [][NextTrim]_vars

\* The helpers of helpers/streaming.js alone, called in any order on one
\* response, as testSSEEventFormatting calls them on its mock response.
SseUnchanged ==
    UNCHANGED <<envVars, buildVars, debugVars, upstream, pos, clientGone, goneAt, pings, clock,
                pc, timers, signal, routeSignal, clientAborted, firstChunkSeen, decoder,
                buffer, finalConversationId, streamCompleted, finalAnswer, messageId, result>>

SendEvent ==
    \E event \in {"", "chunk"} :
        /\ pc = "helpers"
        /\ Len(res.records) < MaxWrites
        /\ res' = sendSSEEvent(res, event, "data")
        /\ SseUnchanged

SendHeartbeat ==
    /\ pc = "helpers"
    /\ Len(res.records) < MaxWrites
    /\ res' = sendHeartbeat(res)
    /\ SseUnchanged

SendError ==
    /\ pc = "helpers"
    /\ Len(res.records) < MaxWrites
    /\ res' = sendSSEError(res, "Test error")
    /\ SseUnchanged

SendComplete ==
    /\ pc = "helpers"
    /\ Len(res.records) < MaxWrites
    /\ res' = sendSSEComplete(res)
    /\ SseUnchanged

EndResponse ==
    /\ pc = "helpers"
    /\ res' = ResEnd(res)
    /\ SseUnchanged

InitSse ==
    /\ InitCommon
    /\ impl = "instrumented"
    /\ chunking = "frame"
    /\ stream = Streams[1]
    /\ upstream = NoResponse
    /\ pc = "helpers"
    /\ timers = [n \in TimerNames |-> "unset"]
    /\ res = NewResponse
    /\ action = SessionAction
    /\ payload = SessionPayload
    /\ request = NoBody
    /\ debug = FALSE

NextSse ==
    \/ SendEvent
    \/ SendHeartbeat
    \/ SendError
    \/ SendComplete
    \/ EndResponse

SpecSse == InitSse /\ [][NextSse]_vars

\* The phase helper of a relay calls record(reqId, frame); now() is the
\* number of the call.  Without DIFY_DEBUG=1 record() returns at once.
RecordEntry ==
    \E r \in ReqIds :
        /\ calls < MaxCalls
        /\ r = "req-2" => calls < MaxSideEntries
        /\ calls' = calls + 1
        /\ transcripts' = IF debug
                          THEN record(transcripts, r, [t |-> calls + 1, reqId |-> r])
                          ELSE transcripts
        /\ UNCHANGED <<envVars, buildVars, debug, upstream, pos, clientGone, goneAt, pings,
                       clock, pc, timers, signal, routeSignal, clientAborted, firstChunkSeen,
                       decoder, buffer, finalConversationId, streamCompleted, finalAnswer,
                       messageId, res, result>>

\* the transcripts alone: no session is followed
InitTranscript ==
    /\ InitCommon
    /\ impl = "instrumented"
    /\ chunking = "frame"
    /\ stream = Streams[1]
    /\ upstream = NoResponse
    /\ pc = "returned"
    /\ timers = [n \in TimerNames |-> "unset"]
    /\ res = NewResponse
    /\ action = SessionAction
    /\ payload = SessionPayload
    /\ request = NoBody
    /\ debug \in BOOLEAN

NextTranscript == RecordEntry

SpecTranscript == InitTranscript /\ [][NextTranscript]_vars

\* ------------------------------------------------------------ properties

\* the handler is suspended on fetch() or on reader.read()
Active == pc \in {"fetch", "read"}

\* the timer that carries the overall deadline of the handler: postStreaming's
\* for the calls that go through it only, the handler's own otherwise
OverallDeadline(i) == IF i \in {"buffered", "action"} THEN "inner" ELSE "deadline"

\* an error record written by the handler itself (an upstream frame that is
\* forwarded carries no kind)
IsErrorRecord(rec) == rec.event = "error" /\ rec.kind # ""

ErrorRecords(r) == {k \in DOMAIN r.records : IsErrorRecord(r.records[k])}

KindRecords(r, kind) == {k \in ErrorRecords(r) : r.records[k].kind = kind}

\* the step in which the delay of the overall deadline runs out
DeadlineStep == clock = "watchdogDue" /\ clock' = "deadlineDue"

\* the step in which the caller disconnects
DisconnectStep == ~clientGone /\ clientGone'

\* C1: in every streaming session, pass-through or buffered, the timer of the
\* overall deadline stays armed from the start of the session until the
\* session ends; it is not disarmed when the connection opens, so it is never
\* in the cleared state while the handler still waits on the upstream.
C1_DeadlineStaysArmed == Active => timers[OverallDeadline(impl)] # "cleared"

\* C2: in a pass-through session, when the overall deadline runs out while the
\* handler is still connecting or reading, exactly one error record of kind
\* timeout is written to the sink.
C2_PassThroughTimeout ==
    [][(impl \in NdjsonRoutes /\ Active /\ DeadlineStep)
           => Cardinality(KindRecords(res', "timeout")) = 1]_vars

\* C3: in a buffered call, when the overall deadline runs out before the
\* upstream stream completes, also after the headers arrived and frames are
\* being accumulated, the call returns an error result of kind timeout.
C3_BufferedTimeout ==
    [][(impl = "buffered" /\ Active /\ DeadlineStep)
           => (pc' = "returned" /\ ~result'.ok /\ result'.error = "timeout")]_vars

\* C4: once the caller has disconnected before the session completed, no error
\* record is written to the caller's sink for that session.
C4_NoErrorAfterDisconnect ==
    (clientGone /\ impl # "buffered")
        => \A k \in ErrorRecords(res) : k <= goneAt

\* C5: every pass-through response stream the engine closes ends with a
\* terminal complete record, or with an error record that is the only error
\* record of the stream.
C5_TerminalRecord ==
    (impl \in NdjsonRoutes /\ res.writableEnded)
        => /\ res.records # <<>>
           /\ LET last == res.records[Len(res.records)]
              IN  \/ last.event = "complete"
                  \/ IsErrorRecord(last) /\ Cardinality(ErrorRecords(res)) = 1

\* C6: the body is consumed as a stream only if the upstream status is a
\* success and the declared content type is text/event-stream; otherwise the
\* read loop is never entered and no upstream frame is parsed or forwarded.
C6_PreflightBeforeRead == pc = "read" => (upstream.ok /\ upstream.sse)

\* C7: a response with a non-success status is surfaced with the error kind
\* bad_upstream_status, in buffered mode as well as in pass-through mode.
C7_BadUpstreamStatus ==
    (impl \in ParserImpls /\ pc = "returned" /\ upstream # NoResponse /\ ~upstream.ok)
        => IF impl = "buffered" THEN result.error = "bad_upstream_status"
           ELSE KindRecords(res, "bad_upstream_status") # {}

\* C8: while the read loop is suspended on the next chunk, each trigger (the
\* connect watchdog firing, the overall deadline running out, the caller
\* disconnecting) cancels the pending read, so that the loop unwinds and the
\* handler returns.
C8_TriggersCancelRead ==
    [][(pc = "read" /\ (\/ DeadlineStep
                        \/ DisconnectStep
                        \/ timers["watchdog"] = "armed" /\ timers'["watchdog"] = "fired"))
           => pc' = "returned"]_vars

\* C9: the cancellation token changes state at most once per session: the
\* first trigger to fire (deadline or caller disconnect) aborts it and fixes
\* its reason, and a later trigger neither changes the reason nor returns the
\* token to the running state.
C9_TokenOneWay ==
    [][/\ signal.aborted => signal' = signal
       /\ (impl \in {"initialize", "analyze"} /\ Active /\ ~signal.aborted /\ DeadlineStep)
              => (signal'.aborted /\ signal'.reason = "timeout")
       /\ (impl \in {"initialize", "analyze"} /\ Active /\ ~signal.aborted /\ DisconnectStep)
              => (signal'.aborted /\ signal'.reason = "Error(client-aborted)")]_vars

\* the handler at the moment the read loop starts on a response
ReadStart ==
    [H EXCEPT !.pc = "read", !.decoder = <<>>, !.buffer = <<>>,
              !.finalConversationId = conversationId, !.streamCompleted = FALSE,
              !.finalAnswer = <<>>, !.messageId = "", !.res = NewResponse,
              !.result = NoResult, !.firstChunkSeen = FALSE]

\* the outcome when the whole byte stream arrives as one chunk
OneShot == OnDone(impl, OnChunk(impl, ReadStart, stream))

\* C10: however the byte stream is cut into chunks, down to one byte at a
\* time, the frame parser produces the same frames in the same order, so the
\* records of a pass-through session and the result of a buffered call are
\* those of the stream delivered as a single chunk.
C10_ChunkingInvariant ==
    pc = "returned"
        => IF impl = "buffered" THEN result = OneShot.result
           ELSE res.records = OneShot.res.records

\* the payloads of the complete frames of a text, in order (the data lines
\* of each frame, as the pass-through parser takes them)
RECURSIVE PayloadsOf(_)
PayloadsOf(text) ==
    LET sep == IndexOfSep(text)
    IN  IF sep = -1 THEN <<>>
        ELSE DataPayloads(Split(SliceTo(text, sep))) \o PayloadsOf(SliceFrom(text, sep + 2))

\* the payloads upstream has delivered so far / delivers in all
PayloadsRead == PayloadsOf(DecodeWhole(SubSeq(stream, 1, pos)))
PayloadsSent == PayloadsOf(DecodeWhole(stream))

Undecodable(data) == data # DONE /\ ~JSONParse(data).ok

\* sub occurs in s as a contiguous run
IsInfix(sub, s) ==
    \E i \in 0..(Len(s) - Len(sub)) : SubSeq(s, i + 1, i + Len(sub)) = sub

\* a record that carries an upstream frame (parsed, as text, or as raw bytes)
IsUpstreamRecord(rec) ==
    rec.event \in {"raw", "text"} \/ rec.type = "text" \/ rec.data.event # ""

\* {type: 'text', data: payload} or {event: 'text', data: payload}
IsTextRecord(rec) == rec.type = "text" \/ rec.event = "text"

IsKeepAlive(rec) == rec.event \in {"ping", "keep-alive"}

\* the chunk the step reads is exactly the frame of document k
ReadsFrame(k) ==
    pc = "read" /\ pos' > pos /\ SubSeq(stream, pos + 1, pos') = Frame(k)

C12_DoneSkipped ==
    \A k \in DOMAIN res.records : ~IsInfix(DONE, res.records[k].text)

\* the record one payload is forwarded as
RecordOf(route, data) ==
    IF JSONParse(data).ok THEN NdjsonEvent(JSONParse(data).value)
    ELSE TextFallback(route, data)

\* C13: in pass-through mode the records that carry upstream frames are, in
\* order, the records of the frames read so far, one record for each frame.
C13_OneRecordPerFrame ==
    (impl \in {"initialize", "analyze"} /\ pc \in {"read", "returned"})
        => LET sent == SelectSeq(PayloadsRead, LAMBDA p : p # DONE)
               got == SelectSeq(res.records, IsUpstreamRecord)
           IN  got = [k \in DOMAIN sent |-> RecordOf(impl, sent[k])]

\* C14: keep-alive records are written only before the first upstream frame
\* arrives: no keep-alive record follows a record that carries an upstream
\* frame.
C14_KeepAliveBeforeFrames ==
    \A j, k \in DOMAIN res.records :
        (j < k /\ IsKeepAlive(res.records[k])) => ~IsUpstreamRecord(res.records[j])

\* C15: in pass-through mode, when upstream reports a failure with an error
\* frame, the session terminates and the caller has exactly one error record.
C15_ErrorFrameTerminates ==
    [][(impl \in {"initialize", "analyze"} /\ ReadsFrame("r"))
           => /\ pc' = "returned"
              /\ Cardinality({k \in DOMAIN res'.records :
                                 res'.records[k].event = "error"}) = 1
              /\ res'.records[Len(res'.records)].event = "error"]_vars

\* C16: in buffered mode an upstream frame of type error fails the call at
\* once: the call returns an error result and never a success result.
C16_BufferedErrorFrame ==
    [][(impl = "buffered" /\ ReadsFrame("r"))
           => (pc' = "returned" /\ ~result'.ok)]_vars

\* C17: in buffered mode the terminal frame (message_end) ends the read loop
\* and the call returns a success result, so that no later frame is consumed.
C17_TerminalFrameEndsLoop ==
    [][(impl = "buffered" /\ ReadsFrame("e"))
           => (pc' = "returned" /\ result'.ok)]_vars

\* the payloads of the complete data lines of a text, as the buffered parser
\* takes them: the lines that start with 'data: ', without that prefix
BufferedPayloads(text) ==
    LET lines == Split(text)
        whole == SubSeq(lines, 1, Len(lines) - 1)
        datas == SelectSeq(whole, LAMBDA l : StartsWith(l, DataSpacePrefix))
    IN  [k \in DOMAIN datas |-> SliceFrom(datas[k], 6)]

BufferedRead == BufferedPayloads(DecodeWhole(SubSeq(stream, 1, pos)))
BufferedSent == BufferedPayloads(DecodeWhole(stream))

\* the text deltas of the message frames before the first terminal frame
RECURSIVE DeltasBeforeEnd(_, _)
DeltasBeforeEnd(payloads, i) ==
    IF i > Len(payloads) THEN <<>>
    ELSE LET d == JSONParse(payloads[i])
         IN  IF d.ok /\ d.value.event = "message_end" THEN <<>>
             ELSE IF d.ok /\ d.value.event \in {"message", "agent_message"}
             THEN d.value.answer \o DeltasBeforeEnd(payloads, i + 1)
             ELSE DeltasBeforeEnd(payloads, i + 1)

HasEnd(payloads) ==
    \E i \in DOMAIN payloads :
        JSONParse(payloads[i]).ok /\ JSONParse(payloads[i]).value.event = "message_end"

\* C18: in buffered mode the answer of a success result is the in-order
\* concatenation of the text deltas of the message frames received before the
\* terminal frame (Hel, lo, message_end gives Hello).
C18_AnswerIsConcatenation ==
    (impl = "buffered" /\ pc = "returned" /\ result.ok /\ HasEnd(BufferedSent))
        => result.answer = DeltasBeforeEnd(BufferedSent, 1)

\* primary message content has arrived in a buffered call
PrimaryArrived ==
    \E i \in DOMAIN BufferedRead :
        LET d == JSONParse(BufferedRead[i])
        IN  d.ok /\ d.value.event \in {"message", "agent_message"} /\ d.value.answer # <<>>

\* C19: in buffered mode a thought frame contributes its text to the
\* accumulated answer only if no primary message content has arrived yet;
\* otherwise it leaves the accumulated answer unchanged.
C19_ThoughtOnlyAsFallback ==
    [][(impl = "buffered" /\ ReadsFrame("t"))
           => /\ PrimaryArrived => finalAnswer' = finalAnswer
              /\ finalAnswer = <<>> => finalAnswer' = JsonBodies["t"].thought
              /\ finalAnswer' \in {finalAnswer, JsonBodies["t"].thought}]_vars

C19_Witness ==
    /\ impl = "buffered"
    /\ pc = "read"
    /\ PrimaryArrived
    /\ pos >= Len(Frame("t"))
    /\ SubSeq(stream, pos - Len(Frame("t")) + 1, pos) = Frame("t")
    /\ finalAnswer = <<"H", "e", "l">>

\* C20: the conversation id of a session is set once, first write wins: once
\* it is not empty no later frame changes it.
C20_FirstWriteWins ==
    [][finalConversationId # "" => finalConversationId' = finalConversationId]_vars

\* C21: during a buffered session the length of the accumulated answer never
\* decreases from one processed frame to the next, until finalization (the
\* step that leaves the read loop).
C21_AnswerLengthMonotonic ==
    [][(impl = "buffered" /\ pc = "read" /\ pc' = "read")
           => Len(finalAnswer') >= Len(finalAnswer)]_vars

\* a second delta and then a thought frame have been processed
C21_Witness ==
    /\ impl = "buffered"
    /\ pc = "read"
    /\ BufferedRead = <<Json("h"), Json("l")>>
    /\ finalAnswer = <<"H", "e", "l", "l", "o">>

\* the step in which a buffered call leaves its read loop with success
BufferedFinalizes == impl = "buffered" /\ pc = "read" /\ pc' = "returned" /\ result'.ok

\* C22: between the successful end of the read loop and the answer delivered
\* to the caller of a buffered call, the reasoning markup removal pass is
\* applied exactly once: the delivered answer is one pass over the
\* accumulated answer.
C22_StrippedExactlyOnce ==
    [][(BufferedFinalizes /\ finalAnswer # <<>>)
           => UserTurnAnswer(result') = Trim(StripThink(finalAnswer))]_vars

\* the index of the first closing tag of s at or after index i (0: none)
FirstCloseFrom(s, i) == IndexOfChar(s, ThinkClose, i)

\* the characters of s from index i on that lie outside every paired
\* reasoning tag: an opening tag with a closing tag after it, the closing tag
\* and everything between are left out
RECURSIVE OutsidePairs(_, _)
OutsidePairs(s, i) ==
    IF i > Len(s) THEN <<>>
    ELSE IF OpenAt(s, i) > 0 /\ FirstCloseFrom(s, i + OpenAt(s, i)) > 0
    THEN OutsidePairs(s, FirstCloseFrom(s, i + OpenAt(s, i)) + 1)
    ELSE <<s[i]>> \o OutsidePairs(s, i + 1)

\* C23, as stated: after finalization the buffered answer is the accumulated
\* text with every paired reasoning tag and everything between the tags
\* removed.
C23_PairsRemoved ==
    [][BufferedFinalizes => result'.answer = OutsidePairs(finalAnswer, 1)]_vars

\* C23, amended: after finalization the buffered answer is the accumulated
\* text with every paired reasoning tag and everything between the tags
\* removed and with leading and trailing whitespace trimmed; the accumulated
\* text <think>ignore</think>Hello yields Hello.
C23_PairsRemovedAndTrimmed ==
    [][BufferedFinalizes
           => /\ result'.answer = Trim(OutsidePairs(finalAnswer, 1))
              /\ finalAnswer = JsonBodies["k"].answer
                     => result'.answer = <<"H", "e", "l", "l", "o">>]_vars

C23_Witness ==
    /\ impl = "buffered"
    /\ pc = "returned"
    /\ result.ok
    /\ BufferedSent = <<Json("k"), Json("e")>>
    /\ result.answer = <<"H", "e", "l", "l", "o">>

\* the arrays of a built body
BodyArrays(b) == {b.players, b.userRoster, b.availablePlayers}

IsLongString(v) == v.t = "string" /\ Len(v.v) > SlimMaxStr

\* no string of a built body, its own texts or a string property of an
\* object it holds, is longer than the maximum string length
StringsWithin(b) ==
    /\ ~IsLongString(b.query)
    /\ ~IsLongString(b.message)
    /\ \A k \in DOMAIN b.player : ~IsLongString(b.player[k])
    /\ \A arr \in BodyArrays(b) :
           \A i \in DOMAIN arr : \A k \in DOMAIN arr[i] : ~IsLongString(arr[i][k])

\* C24: for every payload the request body that is built respects the
\* configured limits: no array of it is longer than the configured maximum
\* length and no string of it is longer than the configured maximum string
\* length.
C24_RequestWithinLimits ==
    request.ok
        => /\ \A arr \in BodyArrays(request) : Len(arr) <= MaxAvailablePlayers
           /\ StringsWithin(request)

\* out holds the first limit elements of in, in order, each with exactly the
\* allowed properties the element had (a string value possibly cut)
ReducedFrom(out, in, limit) ==
    /\ Len(out) = Min(limit, Len(in))
    /\ \A i \in DOMAIN out :
           /\ DOMAIN out[i] = DOMAIN in[i] \cap SlimAllowed
           /\ \A k \in DOMAIN out[i] :
                  \/ out[i][k] = in[i][k]
                  \/ /\ IsLongString(in[i][k])
                     /\ out[i][k] = [in[i][k] EXCEPT !.v = SubSeq(@, 1, SlimMaxStr)]

\* C25: when an array longer than the configured limit is supplied (260
\* elements, limit 200), the array in the request built by the unified client
\* consists of exactly the first limit elements in original order, each
\* reduced to the allowed properties and keeping every allowed property the
\* element had.
C25_FirstLimitElementsReduced ==
    (impl \in {"buffered", "unified"} /\ request.ok)
        => /\ (request.players # <<>> /\ Len(payload.players) > SlimMax)
                  => ReducedFrom(request.players, payload.players, SlimMax)
           /\ (request.availablePlayers # <<>>
                   /\ Len(payload.availablePlayers) > MaxAvailablePlayers)
                  => ReducedFrom(request.availablePlayers, payload.availablePlayers,
                                 MaxAvailablePlayers)

\* C26: an array longer than the configured maximum is truncated, not
\* rejected: a call that is accepted with short arrays is accepted with
\* arrays of 260 elements as well.
C26_TruncatedNotRejected ==
    (pc # "build" /\ payload = FullPayload(260, 3)
         /\ BuildBody(impl, action, FullPayload(2, 3)).ok)
        => request.ok

\* the action identifiers handler i recognizes: the cases of
\* buildDifyMessage, the list of validateStreamingRequest, the streaming and
\* blocking actions of the action route
RecognizedActions(i) ==
    CASE i \in {"buffered", "unified"} ->
             {"legacy", "reset", "initialize", "player-taken", "user-turn", "analyze", "query"}
      [] i = "instrumented" -> {"initialize", "reset", "player-taken", "user-turn", "legacy"}
      [] i = "action" -> {"initialize", "user-turn", "player-taken", "user-drafted"}
      [] OTHER -> Actions

C28_ClosedTaxonomy ==
    LET TaxonomyKinds ==
            {"timeout", "caller_cancelled", "bad_upstream_status", "upstream_error",
             "invalid_conversation", "fetch_error", "parse_error"}
    IN
    /\ impl \in NdjsonRoutes
           => \A k \in DOMAIN res.records :
                  res.records[k].event = "error" => res.records[k].kind \in TaxonomyKinds
    /\ (impl = "buffered" /\ pc = "returned" /\ ~result.ok)
           => result.error \in TaxonomyKinds

\* the step in which the pending fetch() rejects because of the network: no
\* response, no timer callback, no disconnect
NetworkFailureStep ==
    /\ pc = "fetch"
    /\ pc' # "fetch"
    /\ upstream' = upstream
    /\ clock' = clock
    /\ clientGone' = clientGone
    /\ pings' = pings

\* C29: a network-level failure (name resolution, connection refused) gets a
\* classification different from the one of a protocol-level failure (bad
\* status, bad content type) and from the one of a policy-level failure
\* (timeout): the kind of the buffered error result differs.
C29_NetworkDistinct ==
    [][(impl = "buffered" /\ NetworkFailureStep)
           => /\ \A resp \in Responses :
                     ~resp.ok => BufferedOnResponse(H, resp).result.error # result'.error
              /\ result'.error # "timeout"]_vars

\* C30: when the remote service rejects the continuation id of a streaming or
\* buffered call (404 naming the conversation), the failure surfaced to the
\* caller is classified invalid_conversation.
C30_InvalidConversation ==
    [][(pc = "fetch" /\ conversationId # ""
            /\ upstream'.status = 404 /\ upstream'.mentionsConversation)
           => \/ impl = "buffered" /\ result'.error = "invalid_conversation"
              \/ /\ impl # "buffered"
                 /\ \E k \in DOMAIN res'.records :
                        /\ res'.records[k].event = "error"
                        /\ res'.records[k].kind = "invalid_conversation"]_vars

\* the number a number text denotes, in its shortest decimal form
ExactNumber(text) == IF text = "1.0" THEN "1" ELSE text

\* two payloads are the same JSON value: the same members, numbers compared
\* by the value they denote
EquivalentData(a, b) ==
    /\ [a EXCEPT !.created_at = ""] = [b EXCEPT !.created_at = ""]
    /\ ExactNumber(a.created_at) = ExactNumber(b.created_at)

\* C31: for every upstream frame forwarded in pass-through mode, the record
\* emitted for it has the event of the upstream frame and data equivalent to
\* the payload of the upstream frame.
C31_ReencodePreserves ==
    [][\A k \in DOMAIN JsonBodies :
           (impl \in {"initialize", "analyze"} /\ ReadsFrame(k))
               => \A j \in (Len(res.records) + 1)..Len(res'.records) :
                      /\ res'.records[j].event = JsonBodies[k].event
                      /\ EquivalentData(res'.records[j].data, JsonBodies[k])]_vars

\* C32: the transcript kept for a correlation id never holds more than the
\* cap of 200 entries; it is append-only, the new entry goes to the end and
\* the entries kept before it are the newest of the old ones in their order,
\* so that the entries dropped at the cap are the oldest.
C32_TranscriptCapped ==
    [][\A r \in DOMAIN transcripts' :
           LET old == getTranscript(transcripts, r)
               new == transcripts'[r]
           IN  /\ Len(new) <= 200
               /\ new # old
                      => /\ new[Len(new)] = [t |-> calls', reqId |-> r]
                         /\ Len(new) = Min(200, Len(old) + 1)
                         /\ \A k \in 1..(Len(new) - 1) :
                                new[k] = old[Len(old) - (Len(new) - 1) + k]]_vars

\* the cap was reached and the oldest entries were dropped
C32_Witness ==
    /\ debug
    /\ "req-1" \in DOMAIN transcripts
    /\ Len(transcripts["req-1"]) = 200
    /\ transcripts["req-1"][1].t > 2

\* C33: trimAvailablePlayersIfNeeded returns its argument unchanged whenever
\* the payload is null, has no availablePlayers, has an availablePlayers that
\* is not an array, or has at most the configured maximum (200) of players.
C33_TrimLeavesUnchanged ==
    [][(/\ pc = "trim"
        /\ pc' = "trimmed"
        /\ \/ payload.isNull
           \/ payload.availablePlayersIs = "undefined"
           \/ payload.availablePlayersIs = "string"
           \/ payload.availablePlayersIs = "array" /\ Len(payload.availablePlayers) <= 200)
           => trimmed' = payload]_vars

\* an array of exactly the maximum came back as it was
C33_Witness ==
    /\ pc = "trimmed"
    /\ payload.availablePlayersIs = "array"
    /\ Len(payload.availablePlayers) = 200
    /\ trimmed = payload

\* C34: sendSSEError sends one error event and ends the response stream, so
\* that nothing is written to the response afterwards: an error event is the
\* last record of its response and the response is ended.
C34_ErrorEndsStream ==
    \A k \in DOMAIN res.records :
        res.records[k].event = "error" => (k = Len(res.records) /\ res.writableEnded)

\* C35: no record is ever written to the caller's sink after that sink has
\* been ended, whatever ended it (completion, error, connect watchdog, caller
\* disconnect) and whatever upstream data arrives afterwards.
C35_NoWriteAfterEnd == ~res.writeAfterEnd

\* C36: on every exit path of a pass-through session (success, preflight
\* rejection, missing body, validation failure, transport failure, timeout,
\* caller disconnect) all timers of the session (overall deadline, connect
\* watchdog, keep-alive interval) have been cancelled by the time the session
\* ends: no timer is still armed once the handler has returned.
C36_TimersCancelledOnExit ==
    (impl # "buffered" /\ pc = "returned") => \A n \in TimerNames : timers[n] # "armed"

\* C37: every session eventually ends (the buffered call returns, or the
\* sink of the pass-through session is closed), also when upstream accepts
\* the connection, sends its response headers and then sends no byte and
\* never closes the stream.
C37_SessionEnds ==
    <>(IF impl = "buffered" THEN pc = "returned" ELSE res.writableEnded \/ pc = "crashed")

\* C38, as stated: when the connect watchdog fires, exactly one error record
\* is written to the caller for that session, however the upstream request
\* that is still pending resolves or fails afterwards: from the firing on,
\* the sink holds one error record, the one of the watchdog.
C38_OneErrorAfterWatchdog ==
    timers["watchdog"] = "fired"
        => LET errors == {k \in DOMAIN res.records : res.records[k].event = "error"}
           IN  /\ Cardinality(errors) = 1
               /\ \A k \in errors : res.records[k].kind = "connect_timeout"

\* the part of C38 that every handler keeps: when the connect watchdog fires
\* on a response that has not been ended, exactly one error record is written to the caller for that
\* session, however the upstream request that is still pending resolves or
\* fails afterwards: the firing leaves one error record in the sink, the
\* watchdog's, and no step after the firing adds an error record.
C38_OneErrorWhileOpen ==
    [][LET errors(r) == {k \in DOMAIN r.records : r.records[k].event = "error"}
       IN  /\ (timers["watchdog"] = "armed" /\ timers'["watchdog"] = "fired"
                   /\ ~res.writableEnded)
                  => /\ Cardinality(errors(res')) = 1
                     /\ \A k \in errors(res') : res'.records[k].kind = "connect_timeout"
           /\ timers["watchdog"] = "fired" => errors(res') = errors(res)]_vars

\* the watchdog has fired and the request it gave up on has failed since
C38_Witness ==
    /\ impl = "unified"
    /\ timers["watchdog"] = "fired"
    /\ pc = "returned"
    /\ upstream = NoResponse
    /\ Cardinality({k \in DOMAIN res.records : res.records[k].event = "error"}) = 1

\* C39: when the upstream request of a pass-through session fails at the
\* transport before any response, the caller has not disconnected and no
\* deadline has fired, the caller receives exactly one fetch_error record and
\* the response is then ended.
C39_FetchErrorThenEnd ==
    [][(FetchFails /\ impl \in {"initialize", "analyze"} /\ ~clientGone
            /\ clock = "started" /\ ~signal.aborted)
          => /\ Cardinality({k \in DOMAIN res'.records :
                     /\ res'.records[k].event = "error"
                     /\ res'.records[k].kind = "fetch_error"}) = 1
             /\ res'.writableEnded]_vars

\* C40: aborting the cancellation signal that a caller supplies to
\* postStreaming cancels the in-flight request: once the signal that
\* sendToDifyStreaming handed to postStreaming is aborted, the handler no
\* longer waits on that request.
C40_AbortCancelsRequest ==
    (impl = "unified" /\ signal.aborted) => pc # "fetch"

====
